---- MODULE Spec2Model ----
(***************************************************************************)
(* Model of Message.Resolve of nkristek/go-senml (src/senml.go, the        *)
(* revision that declares SupportedVersion).  A caller resolves a pack and *)
(* may resolve the pack it got back once more.  A pack is a sequence of    *)
(* records; every record field is a Go pointer, modelled as a sequence of  *)
(* length 0 (nil) or 1 (the pointed-to value).  Strings are sequences of   *)
(* one-character strings, float64 values are the integers they hold.       *)
(***************************************************************************)
EXTENDS Integers, Sequences, FiniteSets, TLC

VARIABLES message, timeNow, pc, baseName, baseTime, baseUnit, baseValue,
          baseSum, baseVersion, resolvedMessage, err, round, previous,
          baseVersionStorage, resolvedStorage,
          calls, frames, pipeline

vars == <<message, timeNow, pc, baseName, baseTime, baseUnit, baseValue,
          baseSum, baseVersion, resolvedMessage, err, round, previous,
          baseVersionStorage, resolvedStorage,
          calls, frames, pipeline>>

\* the variables of the single call of Resolve
callVars == <<message, timeNow, pc, baseName, baseTime, baseUnit, baseValue,
              baseSum, baseVersion, resolvedMessage, err, round, previous,
              baseVersionStorage, resolvedStorage>>

\* the variables of two calls of Resolve running side by side
pairVars == <<calls, frames>>

(* ------------------------------ bounds --------------------------------- *)

\* Longest pack that is resolved.
MaxLen == 3

\* Longest pack that one of two concurrent callers resolves.
MaxPairLen == 2

\* Longest document that is decoded.
MaxDocLen == 2

(* ----------------------------- pointers -------------------------------- *)

Nil == <<>>

Some(x) == <<x>>

Deref(p) == p[1]

(* ------------------------------ Record --------------------------------- *)

\* Record{} : every pointer field nil.
EmptyRecord ==
    [BaseName |-> Nil, BaseTime |-> Nil, BaseUnit |-> Nil, BaseValue |-> Nil,
     BaseSum |-> Nil, BaseVersion |-> Nil, Name |-> Nil, Unit |-> Nil,
     Value |-> Nil, BoolValue |-> Nil, StringValue |-> Nil, DataValue |-> Nil,
     Sum |-> Nil, Time |-> Nil, UpdateTime |-> Nil]

SupportedVersion == 10

(* ------------------------------ errors --------------------------------- *)

NoError == "nil"

ErrUnsupportedVersion == "UnsupportedVersion"

ErrInconsistentVersion == "InconsistentVersion"

ErrEmptyName == "EmptyName"

ErrInvalidNameCharacters == "InvalidNameCharacters"

ErrInvalidNameStart == "InvalidNameStart"

ErrMissingValue == "MissingValue"

NameErrors == {ErrEmptyName, ErrInvalidNameCharacters, ErrInvalidNameStart}

(* --------------------------- name resolution --------------------------- *)

Alnum ==
    {"a","b","c","d","e","f","g","h","i","j","k","l","m",
     "n","o","p","q","r","s","t","u","v","w","x","y","z",
     "A","B","C","D","E","F","G","H","I","J","K","L","M",
     "N","O","P","Q","R","S","T","U","V","W","X","Y","Z",
     "0","1","2","3","4","5","6","7","8","9"}

\* the character class of ^[a-zA-Z0-9\-\:\.\/\_]*$
validNameCharsExp == Alnum \cup {"-", ":", ".", "/", "_"}

\* the character class of ^[a-zA-Z0-9]*$
validFirstCharacterExp == Alnum

\* regexp.MatchString for an anchored ^[class]*$ expression
MatchString(class, s) == \A k \in 1..Len(s) : s[k] \in class

\* resolveName without the character-set check
resolveNameNoCharCheck(bName, name) ==
    LET base == IF bName # Nil THEN Deref(bName) ELSE <<>>
        resolvedName == IF name # Nil THEN base \o Deref(name) ELSE base
    IN  IF Len(resolvedName) = 0
            THEN [ptr |-> Nil, err |-> ErrEmptyName]
        ELSE IF ~MatchString(validFirstCharacterExp, SubSeq(resolvedName, 1, 1))
            THEN [ptr |-> Nil, err |-> ErrInvalidNameStart]
        ELSE [ptr |-> Some(resolvedName), err |-> NoError]

\* resolveName appending the base name to the own name
resolveNameSwapped(bName, name) ==
    LET own == IF name # Nil THEN Deref(name) ELSE <<>>
        resolvedName == IF bName # Nil THEN own \o Deref(bName) ELSE own
    IN  IF Len(resolvedName) = 0
            THEN [ptr |-> Nil, err |-> ErrEmptyName]
        ELSE IF ~MatchString(validNameCharsExp, resolvedName)
            THEN [ptr |-> Nil, err |-> ErrInvalidNameCharacters]
        ELSE IF ~MatchString(validFirstCharacterExp, SubSeq(resolvedName, 1, 1))
            THEN [ptr |-> Nil, err |-> ErrInvalidNameStart]
        ELSE [ptr |-> Some(resolvedName), err |-> NoError]

\* resolveName testing the first character before the character set
resolveNameStartFirst(bName, name) ==
    LET base == IF bName # Nil THEN Deref(bName) ELSE <<>>
        resolvedName == IF name # Nil THEN base \o Deref(name) ELSE base
    IN  IF Len(resolvedName) = 0
            THEN [ptr |-> Nil, err |-> ErrEmptyName]
        ELSE IF ~MatchString(validFirstCharacterExp, SubSeq(resolvedName, 1, 1))
            THEN [ptr |-> Nil, err |-> ErrInvalidNameStart]
        ELSE IF ~MatchString(validNameCharsExp, resolvedName)
            THEN [ptr |-> Nil, err |-> ErrInvalidNameCharacters]
        ELSE [ptr |-> Some(resolvedName), err |-> NoError]

\* resolveName without the first-character check
resolveNameNoStartCheck(bName, name) ==
    LET base == IF bName # Nil THEN Deref(bName) ELSE <<>>
        resolvedName == IF name # Nil THEN base \o Deref(name) ELSE base
    IN  IF Len(resolvedName) = 0
            THEN [ptr |-> Nil, err |-> ErrEmptyName]
        ELSE IF ~MatchString(validNameCharsExp, resolvedName)
            THEN [ptr |-> Nil, err |-> ErrInvalidNameCharacters]
        ELSE [ptr |-> Some(resolvedName), err |-> NoError]

resolveName(bName, name) ==
    LET base == IF bName # Nil THEN Deref(bName) ELSE <<>>
        resolvedName == IF name # Nil THEN base \o Deref(name) ELSE base
    IN  IF Len(resolvedName) = 0
            THEN [ptr |-> Nil, err |-> ErrEmptyName]
        ELSE IF ~MatchString(validNameCharsExp, resolvedName)
            THEN [ptr |-> Nil, err |-> ErrInvalidNameCharacters]
        ELSE IF ~MatchString(validFirstCharacterExp, SubSeq(resolvedName, 1, 1))
            THEN [ptr |-> Nil, err |-> ErrInvalidNameStart]
        ELSE [ptr |-> Some(resolvedName), err |-> NoError]

(* ------------------------ other field resolution ----------------------- *)

\* resolveUnit preferring the base unit
resolveUnitBaseFirst(bUnit, unit) ==
    IF bUnit # Nil THEN Some(Deref(bUnit))
    ELSE IF unit # Nil THEN Some(Deref(unit))
    ELSE Nil

resolveUnit(bUnit, unit) ==
    IF unit # Nil THEN Some(Deref(unit))
    ELSE IF bUnit # Nil THEN Some(Deref(bUnit))
    ELSE Nil

\* resolveValue giving a value only to a record that has one of its own
resolveValueNeedsOwn(bValue, value) ==
    LET r1 == IF bValue # Nil THEN Deref(bValue) ELSE 0
        resolvedValue == IF value # Nil THEN r1 + Deref(value) ELSE r1
    IN  IF value # Nil THEN Some(resolvedValue) ELSE Nil

\* resolveValue taking a zero base value for an unset one
resolveValueZeroIsUnset(bValue, value) ==
    LET r1 == IF bValue # Nil THEN Deref(bValue) ELSE 0
        resolvedValue == IF value # Nil THEN r1 + Deref(value) ELSE r1
    IN  IF r1 # 0 \/ value # Nil THEN Some(resolvedValue) ELSE Nil

resolveValue(bValue, value) ==
    LET r1 == IF bValue # Nil THEN Deref(bValue) ELSE 0
        resolvedValue == IF value # Nil THEN r1 + Deref(value) ELSE r1
    IN  IF bValue # Nil \/ value # Nil THEN Some(resolvedValue) ELSE Nil

resolveBoolValue(value) == IF value # Nil THEN Some(Deref(value)) ELSE Nil

resolveStringValue(value) == IF value # Nil THEN Some(Deref(value)) ELSE Nil

resolveDataValue(value) == IF value # Nil THEN Some(Deref(value)) ELSE Nil

resolveSum(bSum, sum) ==
    LET r1 == IF bSum # Nil THEN Deref(bSum) ELSE 0
        resolvedSum == IF sum # Nil THEN r1 + Deref(sum) ELSE r1
    IN  IF bSum # Nil \/ sum # Nil THEN Some(resolvedSum) ELSE Nil

\* Go's binary ^ on integers is bitwise exclusive or.
RECURSIVE Xor(_, _)
Xor(a, b) ==
    IF a = 0 /\ b = 0 THEN 0
    ELSE (((a % 2) + (b % 2)) % 2) + 2 * Xor(a \div 2, b \div 2)

\* the constant expression 2^28 of resolveTime
RelativeTimeLimit == Xor(2, 28)

\* resolveTime where the own time replaces the base time
resolveTimeOverride(bTime, time, now) ==
    LET r1 == IF bTime # Nil THEN Deref(bTime) ELSE 0
        resolvedTime == IF time # Nil THEN Deref(time) ELSE r1
    IN  IF bTime # Nil \/ time # Nil
            THEN IF resolvedTime < RelativeTimeLimit
                    THEN Some(resolvedTime + now)
                    ELSE Some(resolvedTime)
            ELSE Nil

resolveTime(bTime, time, now) ==
    LET r1 == IF bTime # Nil THEN Deref(bTime) ELSE 0
        resolvedTime == IF time # Nil THEN r1 + Deref(time) ELSE r1
    IN  IF bTime # Nil \/ time # Nil
            THEN IF resolvedTime < RelativeTimeLimit
                    THEN Some(resolvedTime + now)
                    ELSE Some(resolvedTime)
            ELSE Nil

\* resolveUpdateTime converting a relative update time like a time
resolveUpdateTimeConverted(updateTime) ==
    IF updateTime # Nil
        THEN IF Deref(updateTime) < RelativeTimeLimit
                THEN Some(Deref(updateTime) + timeNow)
                ELSE Some(Deref(updateTime))
        ELSE Nil

resolveUpdateTime(updateTime) ==
    IF updateTime # Nil THEN Some(Deref(updateTime)) ELSE Nil

\* validateRecordHasValue that does not look at Sum
validateRecordHasValueNoSum(record) ==
    IF record.Value = Nil /\ record.StringValue = Nil /\ record.BoolValue = Nil
       /\ record.DataValue = Nil
        THEN ErrMissingValue
        ELSE NoError

validateRecordHasValue(record) ==
    IF record.Value = Nil /\ record.StringValue = Nil /\ record.BoolValue = Nil
       /\ record.DataValue = Nil /\ record.Sum = Nil
        THEN ErrMissingValue
        ELSE NoError

(* ------------------------- version and base state ---------------------- *)

\* the version branch letting a pack declare its version only once
checkVersionOnlyOnce(bVersion, recVersion) ==
    IF recVersion # Nil
        THEN IF Deref(recVersion) > SupportedVersion
                THEN [ptr |-> bVersion, err |-> ErrUnsupportedVersion]
             ELSE IF bVersion = Nil
                THEN [ptr |-> recVersion, err |-> NoError]
             ELSE [ptr |-> bVersion, err |-> ErrInconsistentVersion]
    ELSE IF bVersion = Nil
        THEN [ptr |-> Some(SupportedVersion), err |-> NoError]
    ELSE [ptr |-> bVersion, err |-> NoError]

\* the version branch adopting every supported base_version it meets
checkVersionLastWins(bVersion, recVersion) ==
    IF recVersion # Nil
        THEN IF Deref(recVersion) > SupportedVersion
                THEN [ptr |-> bVersion, err |-> ErrUnsupportedVersion]
                ELSE [ptr |-> recVersion, err |-> NoError]
    ELSE IF bVersion = Nil
        THEN [ptr |-> Some(SupportedVersion), err |-> NoError]
    ELSE [ptr |-> bVersion, err |-> NoError]

\* the version branch rejecting the supported version itself
checkVersionAtLeast(bVersion, recVersion) ==
    IF recVersion # Nil
        THEN IF Deref(recVersion) >= SupportedVersion
                THEN [ptr |-> bVersion, err |-> ErrUnsupportedVersion]
             ELSE IF bVersion = Nil
                THEN [ptr |-> recVersion, err |-> NoError]
             ELSE IF Deref(recVersion) # Deref(bVersion)
                THEN [ptr |-> bVersion, err |-> ErrInconsistentVersion]
             ELSE [ptr |-> bVersion, err |-> NoError]
    ELSE IF bVersion = Nil
        THEN [ptr |-> Some(SupportedVersion), err |-> NoError]
    ELSE [ptr |-> bVersion, err |-> NoError]

\* the version branch comparing with the adopted version before it looks
\* at the supported maximum
checkVersionConsistencyFirst(bVersion, recVersion) ==
    IF recVersion # Nil
        THEN IF bVersion # Nil /\ Deref(recVersion) # Deref(bVersion)
                THEN [ptr |-> bVersion, err |-> ErrInconsistentVersion]
             ELSE IF Deref(recVersion) > SupportedVersion
                THEN [ptr |-> bVersion, err |-> ErrUnsupportedVersion]
             ELSE IF bVersion = Nil
                THEN [ptr |-> recVersion, err |-> NoError]
             ELSE [ptr |-> bVersion, err |-> NoError]
    ELSE IF bVersion = Nil
        THEN [ptr |-> Some(SupportedVersion), err |-> NoError]
    ELSE [ptr |-> bVersion, err |-> NoError]

\* the version branch without the default for a record that has no
\* base_version: the first base_version seen is adopted
checkVersionAdoptFirst(bVersion, recVersion) ==
    IF recVersion # Nil
        THEN IF Deref(recVersion) > SupportedVersion
                THEN [ptr |-> bVersion, err |-> ErrUnsupportedVersion]
             ELSE IF bVersion = Nil
                THEN [ptr |-> recVersion, err |-> NoError]
             ELSE IF Deref(recVersion) # Deref(bVersion)
                THEN [ptr |-> bVersion, err |-> ErrInconsistentVersion]
             ELSE [ptr |-> bVersion, err |-> NoError]
    ELSE [ptr |-> bVersion, err |-> NoError]

\* the version branch at the head of the loop body of Resolve
checkVersion(bVersion, recVersion) ==
    IF recVersion # Nil
        THEN IF Deref(recVersion) > SupportedVersion
                THEN [ptr |-> bVersion, err |-> ErrUnsupportedVersion]
             ELSE IF bVersion = Nil
                THEN [ptr |-> recVersion, err |-> NoError]
             ELSE IF Deref(recVersion) # Deref(bVersion)
                THEN [ptr |-> bVersion, err |-> ErrInconsistentVersion]
             ELSE [ptr |-> bVersion, err |-> NoError]
    ELSE IF bVersion = Nil
        THEN [ptr |-> Some(SupportedVersion), err |-> NoError]
    ELSE [ptr |-> bVersion, err |-> NoError]

(* Where a pointer points.  The records of the pack handed to Resolve lie  *)
(* in storage of the caller; a variable declared during the call lies in   *)
(* storage of the call.                                                    *)

NoStorage == "none"

InputStorage == "input"

CallStorage == "call"

\* what baseVersion points to after the version branch: the base_version
\* of a record of the pack (baseVersion = record.BaseVersion) or the
\* variable defaultVersion (baseVersion = &defaultVersion)
versionStorage(storage, bVersion, recVersion) ==
    IF recVersion # Nil
        THEN IF Deref(recVersion) <= SupportedVersion /\ bVersion = Nil
                THEN InputStorage
                ELSE storage
    ELSE IF bVersion = Nil
        THEN CallStorage
    ELSE storage

\* what a pointer returned by resolveName ... resolveUpdateTime points to:
\* each returns nil or the address of a variable it declared
AddressOfLocal(ptr) == IF ptr = Nil THEN {} ELSE {CallStorage}

\* setBaseVersionIfNecessary storing baseVersion itself in every record
setBaseVersionStorageShared(records, bVersion, storage) ==
    IF bVersion # Nil /\ Deref(bVersion) < SupportedVersion /\ records # <<>>
        THEN {storage}
        ELSE {}

\* what the base_version pointers written by setBaseVersionIfNecessary
\* point to: &resolvedVersion, a copy of *baseVersion made for each record
setBaseVersionStorage(records, bVersion, storage) ==
    IF bVersion # Nil /\ Deref(bVersion) < SupportedVersion /\ records # <<>>
        THEN {CallStorage}
        ELSE {}

\* a base that keeps the first value it was given
updateBaseFirstWins(base, field) == IF base = Nil THEN field ELSE base

\* if record.BaseX != nil { baseX = record.BaseX }
updateBase(base, field) == IF field # Nil THEN field ELSE base

\* setBaseVersionIfNecessary stamping the supported version too
setBaseVersionAlways(records, bVersion) ==
    IF bVersion # Nil /\ Deref(bVersion) <= SupportedVersion
        THEN [i \in 1..Len(records) |->
                 [records[i] EXCEPT !.BaseVersion = Some(Deref(bVersion))]]
        ELSE records

setBaseVersionIfNecessary(records, bVersion) ==
    IF bVersion # Nil /\ Deref(bVersion) < SupportedVersion
        THEN [i \in 1..Len(records) |->
                 [records[i] EXCEPT !.BaseVersion = Some(Deref(bVersion))]]
        ELSE records

\* a less function that puts the records without time last
LessNilLast(first, second) ==
    IF first.Time = Nil THEN FALSE
    ELSE IF second.Time = Nil THEN TRUE
    ELSE Deref(first.Time) < Deref(second.Time)

\* the less function handed to sort.SliceStable
Less(first, second) ==
    IF second.Time = Nil THEN FALSE
    ELSE IF first.Time = Nil THEN TRUE
    ELSE Deref(first.Time) < Deref(second.Time)

\* insertion that keeps one record of those that tie
RECURSIVE InsertDroppingTies(_, _)
InsertDroppingTies(s, r) ==
    IF s = <<>> THEN <<r>>
    ELSE IF Less(r, s[Len(s)])
        THEN Append(InsertDroppingTies(SubSeq(s, 1, Len(s) - 1), r), s[Len(s)])
    ELSE IF Less(s[Len(s)], r)
        THEN Append(s, r)
    ELSE s

\* insertion of r before the elements it ties with
RECURSIVE InsertBeforeEqual(_, _)
InsertBeforeEqual(s, r) ==
    IF s = <<>> THEN <<r>>
    ELSE IF ~Less(s[Len(s)], r)
        THEN Append(InsertBeforeEqual(SubSeq(s, 1, Len(s) - 1), r), s[Len(s)])
        ELSE Append(s, r)

\* stable insertion of r into a sorted sequence: r goes after every
\* element that is not greater than it
RECURSIVE InsertStable(_, _)
InsertStable(s, r) ==
    IF s = <<>> THEN <<r>>
    ELSE IF Less(r, s[Len(s)])
        THEN Append(InsertStable(SubSeq(s, 1, Len(s) - 1), r), s[Len(s)])
        ELSE Append(s, r)

RECURSIVE sortRecordsChronologically(_)
sortRecordsChronologically(records) ==
    IF records = <<>> THEN <<>>
    ELSE InsertStable(
            sortRecordsChronologically(SubSeq(records, 1, Len(records) - 1)),
            records[Len(records)])

(* ------------------------------ inputs --------------------------------- *)

Str(c) == <<c>>

\* every record of a pack is named "a" and carries v = 1 unless its family
\* varies that field
Plain == [EmptyRecord EXCEPT !.Name = Some(Str("a")), !.Value = Some(1)]

NameRecords ==
    {[EmptyRecord EXCEPT !.BaseName = bn, !.Name = n, !.Value = Some(1)] :
        bn \in {Nil, Some(<<>>), Some(Str("a")), Some(Str("-"))},
        n \in {Nil, Some(Str("a")), Some(Str("-"))}}
    \cup {[EmptyRecord EXCEPT !.Name = Some(Str("(")), !.Value = Some(1)]}

ValueRecords ==
    {[EmptyRecord EXCEPT !.Name = Some(Str("a")), !.BaseValue = bv,
                         !.Value = v, !.Sum = s] :
        bv \in {Nil, Some(0), Some(2)},
        v \in {Nil, Some(1)},
        s \in {Nil, Some(4)}}

SumRecords ==
    {[EmptyRecord EXCEPT !.Name = Some(Str("a")), !.BaseSum = bs,
                         !.Sum = s, !.BoolValue = vb] :
        bs \in {Nil, Some(0), Some(2)},
        s \in {Nil, Some(1)},
        vb \in {Nil, Some(FALSE)}}

\* records with at most one of bool_value, string_value, data_value
PassRecords ==
    {[r EXCEPT !.UpdateTime = ut] :
        r \in {[EmptyRecord EXCEPT !.Name = Some(Str("a"))],
               [EmptyRecord EXCEPT !.Name = Some(Str("a")),
                                   !.BoolValue = Some(TRUE)],
               [EmptyRecord EXCEPT !.Name = Some(Str("a")),
                                   !.StringValue = Some(<<>>)],
               [EmptyRecord EXCEPT !.Name = Some(Str("a")),
                                   !.DataValue = Some(Str("a"))]},
        ut \in {Nil, Some(5)}}

UnitRecords ==
    {[Plain EXCEPT !.BaseUnit = bu, !.Unit = u] :
        bu \in {Nil, Some(<<>>), Some(Str("C"))},
        u \in {Nil, Some(<<>>), Some(Str("F"))}}

TimeRecords ==
    {[Plain EXCEPT !.BaseTime = bt, !.Time = t] :
        bt \in {Nil, Some(0), Some(20)},
        t \in {Nil, Some(10), Some(268435455), Some(268435456)}}

VersionRecords ==
    {[Plain EXCEPT !.BaseVersion = bver] :
        bver \in {Nil, Some(5), Some(6), Some(10), Some(11)}}

\* records that differ in value and may tie on time
OrderRecords ==
    {[EmptyRecord EXCEPT !.Name = Some(Str("a")), !.Time = t, !.Value = v] :
        t \in {Nil, Some(268435456), Some(268435457)},
        v \in {Some(1), Some(2), Some(3)}}

\* records that may be invalid in more than one way
FailRecords ==
    {[EmptyRecord EXCEPT !.BaseVersion = bver, !.Name = n, !.Value = v] :
        bver \in {Nil, Some(5), Some(11)},
        n \in {Some(Str("a")), Some(Str("-"))},
        v \in {Nil, Some(1)}}

\* records that carry pass-through fields next to base attributes
CarryRecords ==
    {[EmptyRecord EXCEPT !.Name = Some(Str("a")), !.BaseTime = bt,
                         !.BaseName = bn, !.BoolValue = Some(FALSE),
                         !.UpdateTime = ut] :
        bt \in {Nil, Some(20)},
        bn \in {Nil, Some(Str("a"))},
        ut \in {Nil, Some(5)}}

Families ==
    {NameRecords, ValueRecords, SumRecords, PassRecords, UnitRecords,
     TimeRecords, VersionRecords, OrderRecords, FailRecords, CarryRecords}

\* the packs that are resolved: up to MaxLen records of one family
Packs == UNION {[1..n -> F] : n \in 0..MaxLen, F \in Families}

\* readings of time.Now().Unix()
NowValues == {1700000000}

\* readings of the clock by a call that follows one that read now
LaterNow(now) == {now, now + 60}

(* ---------------------------- the machine ------------------------------ *)

\* no encoding or decoding is under way
NoPipeline == [stage |-> "none"]

\* entry of Resolve: timeNow read, every running base nil
Init ==
    /\ message \in Packs
    /\ timeNow \in NowValues
    /\ pc = "loop"
    /\ baseName = Nil
    /\ baseTime = Nil
    /\ baseUnit = Nil
    /\ baseValue = Nil
    /\ baseSum = Nil
    /\ baseVersion = Nil
    /\ resolvedMessage = <<>>
    /\ err = NoError
    /\ round = 1
    /\ previous = <<>>
    /\ baseVersionStorage = NoStorage
    /\ resolvedStorage = {}
    /\ calls = <<>>
    /\ frames = <<>>
    /\ pipeline = NoPipeline

\* the record the loop is at: records are appended one per iteration
record == message[Len(resolvedMessage) + 1]

\* a clock that is read again in every iteration of the loop, a second
\* having passed with every record resolved
timeNowPerRecord == timeNow + Len(resolvedMessage)

\* the reading of the clock the loop body hands to resolveTime: timeNow, the
\* variable set once before the loop
timeNowOfLoop == timeNow

\* a resolved record that starts as a copy of the record it resolves
newResolvedRecordCopy(rec) == rec

\* var resolvedRecord = Record{}
newResolvedRecord(rec) == EmptyRecord

\* one iteration of the loop over message.Records
ResolveRecord ==
    /\ pc = "loop"
    /\ Len(resolvedMessage) < Len(message)
    /\ LET ver == checkVersion(baseVersion, record.BaseVersion)
       IN  IF ver.err # NoError
             THEN /\ err' = ver.err
                  /\ pc' = "done"
                  /\ UNCHANGED <<baseName, baseTime, baseUnit, baseValue,
                                 baseSum, baseVersion, resolvedMessage,
                                 baseVersionStorage, resolvedStorage>>
             ELSE
               LET bn == updateBase(baseName, record.BaseName)
                   bt == updateBase(baseTime, record.BaseTime)
                   bu == updateBase(baseUnit, record.BaseUnit)
                   bv == updateBase(baseValue, record.BaseValue)
                   bs == updateBase(baseSum, record.BaseSum)
                   name == resolveName(bn, record.Name)
                   resolvedRecord ==
                     [newResolvedRecord(record) EXCEPT
                        !.Name = name.ptr,
                        !.Unit = resolveUnit(bu, record.Unit),
                        !.Value = resolveValue(bv, record.Value),
                        !.BoolValue = resolveBoolValue(record.BoolValue),
                        !.StringValue = resolveStringValue(record.StringValue),
                        !.DataValue = resolveDataValue(record.DataValue),
                        !.Sum = resolveSum(bs, record.Sum),
                        !.Time = resolveTime(bt, record.Time, timeNowOfLoop),
                        !.UpdateTime = resolveUpdateTime(record.UpdateTime)]
                   missing == validateRecordHasValue(resolvedRecord)
               IN  /\ baseVersion' = ver.ptr
                   /\ baseVersionStorage' =
                         versionStorage(baseVersionStorage, baseVersion,
                                        record.BaseVersion)
                   /\ baseName' = bn
                   /\ baseTime' = bt
                   /\ baseUnit' = bu
                   /\ baseValue' = bv
                   /\ baseSum' = bs
                   /\ IF name.err # NoError
                        THEN /\ err' = name.err
                             /\ pc' = "done"
                             /\ UNCHANGED <<resolvedMessage, resolvedStorage>>
                      ELSE IF missing # NoError
                        THEN /\ err' = missing
                             /\ pc' = "done"
                             /\ UNCHANGED <<resolvedMessage, resolvedStorage>>
                      ELSE /\ resolvedMessage' =
                                 Append(resolvedMessage, resolvedRecord)
                           /\ resolvedStorage' =
                                 resolvedStorage \cup
                                 UNION {AddressOfLocal(resolvedRecord[f]) :
                                           f \in DOMAIN resolvedRecord}
                           /\ UNCHANGED <<err, pc>>
    /\ UNCHANGED <<message, timeNow, round, previous>>
    /\ UNCHANGED <<calls, frames, pipeline>>

\* after the loop: stamp the version, sort, return
ResolveReturn ==
    /\ pc = "loop"
    /\ Len(resolvedMessage) = Len(message)
    /\ resolvedMessage' =
          sortRecordsChronologically(
              setBaseVersionIfNecessary(resolvedMessage, baseVersion))
    /\ resolvedStorage' =
          resolvedStorage \cup
          setBaseVersionStorage(resolvedMessage, baseVersion,
                                baseVersionStorage)
    /\ pc' = "done"
    /\ UNCHANGED <<message, timeNow, baseName, baseTime, baseUnit, baseValue,
                   baseSum, baseVersion, err, round, previous,
                   baseVersionStorage>>
    /\ UNCHANGED <<calls, frames, pipeline>>

\* the caller hands the pack a successful Resolve returned to Resolve again
ResolveAgain ==
    /\ round = 1
    /\ pc = "done"
    /\ err = NoError
    /\ round' = 2
    /\ previous' = resolvedMessage
    /\ message' = resolvedMessage
    /\ timeNow' \in LaterNow(timeNow)
    /\ pc' = "loop"
    /\ baseName' = Nil
    /\ baseTime' = Nil
    /\ baseUnit' = Nil
    /\ baseValue' = Nil
    /\ baseSum' = Nil
    /\ baseVersion' = Nil
    /\ resolvedMessage' = <<>>
    /\ baseVersionStorage' = NoStorage
    /\ resolvedStorage' = {}
    /\ UNCHANGED err
    /\ UNCHANGED <<calls, frames, pipeline>>

Next == ResolveRecord \/ ResolveReturn \/ ResolveAgain

Spec == Init /\ [][Next]_vars

TypeOK ==
    /\ pc \in {"loop", "done"}
    /\ err \in {NoError, ErrUnsupportedVersion, ErrInconsistentVersion,
                ErrMissingValue} \cup NameErrors
    /\ Len(resolvedMessage) <= Len(message)
    /\ round \in {1, 2}

(* ------------------------ two calls side by side ---------------------- *)

Calls == {1, 2}

\* what the two callers put in their packs: a plain record, one that sets
\* a base name, one that declares version 5, and one that has a base time
\* but no name of its own
PairRecords ==
    {Plain,
     [Plain EXCEPT !.BaseName = Some(Str("b"))],
     [Plain EXCEPT !.BaseVersion = Some(5)],
     [EmptyRecord EXCEPT !.Value = Some(1), !.BaseTime = Some(20)]}

PairPacks == UNION {[1..n -> PairRecords] : n \in 0..MaxPairLen}

\* readings of the clock by two calls that run at about the same time
PairNowValues == UNION {LaterNow(now) : now \in NowValues}

\* var baseName ... var baseVersion: every running base nil
EmptyBases ==
    [baseName |-> Nil, baseTime |-> Nil, baseUnit |-> Nil, baseValue |-> Nil,
     baseSum |-> Nil, baseVersion |-> Nil]

\* the running bases declared at package level: one set for every call
frameShared(c) == 1

\* where the running bases of call c live: they are variables declared in
\* the body of Resolve, so every call has its own
frameOf(c) == c

\* the loop body for one record, from the running bases b: the bases it
\* leaves, the resolved record it appends (none on an error) and the error
loopBody(b, rec, now) ==
    LET ver == checkVersion(b.baseVersion, rec.BaseVersion)
    IN  IF ver.err # NoError
          THEN [bases |-> b, out |-> <<>>, err |-> ver.err]
          ELSE
            LET nb == [baseName |-> updateBase(b.baseName, rec.BaseName),
                       baseTime |-> updateBase(b.baseTime, rec.BaseTime),
                       baseUnit |-> updateBase(b.baseUnit, rec.BaseUnit),
                       baseValue |-> updateBase(b.baseValue, rec.BaseValue),
                       baseSum |-> updateBase(b.baseSum, rec.BaseSum),
                       baseVersion |-> ver.ptr]
                name == resolveName(nb.baseName, rec.Name)
                resolvedRecord ==
                  [newResolvedRecord(rec) EXCEPT
                     !.Name = name.ptr,
                     !.Unit = resolveUnit(nb.baseUnit, rec.Unit),
                     !.Value = resolveValue(nb.baseValue, rec.Value),
                     !.BoolValue = resolveBoolValue(rec.BoolValue),
                     !.StringValue = resolveStringValue(rec.StringValue),
                     !.DataValue = resolveDataValue(rec.DataValue),
                     !.Sum = resolveSum(nb.baseSum, rec.Sum),
                     !.Time = resolveTime(nb.baseTime, rec.Time, now),
                     !.UpdateTime = resolveUpdateTime(rec.UpdateTime)]
                missing == validateRecordHasValue(resolvedRecord)
            IN  IF name.err # NoError
                  THEN [bases |-> nb, out |-> <<>>, err |-> name.err]
                ELSE IF missing # NoError
                  THEN [bases |-> nb, out |-> <<>>, err |-> missing]
                ELSE [bases |-> nb, out |-> <<resolvedRecord>>,
                      err |-> NoError]

\* Resolve run from start to end with nothing in between: the records and
\* the error it returns for a pack and a reading of the clock
RECURSIVE ResolveFrom(_, _, _, _)
ResolveFrom(pack, now, b, acc) ==
    IF Len(acc) = Len(pack)
        THEN [records |-> sortRecordsChronologically(
                              setBaseVersionIfNecessary(acc, b.baseVersion)),
              err |-> NoError]
        ELSE LET r == loopBody(b, pack[Len(acc) + 1], now)
             IN  IF r.err # NoError
                   THEN [records |-> acc, err |-> r.err]
                   ELSE ResolveFrom(pack, now, r.bases, acc \o r.out)

ResolveAlone(pack, now) == ResolveFrom(pack, now, EmptyBases, <<>>)

\* two callers, each about to call Resolve on a pack of its own
InitPair ==
    /\ calls \in [Calls -> {[message |-> m, timeNow |-> 0, pc |-> "call",
                              resolvedMessage |-> <<>>, err |-> NoError] :
                                m \in PairPacks}]
    /\ frames = [f \in Calls |-> EmptyBases]
    /\ pipeline = NoPipeline
    /\ message = <<>>
    /\ timeNow \in NowValues
    /\ pc = "done"
    /\ baseName = Nil
    /\ baseTime = Nil
    /\ baseUnit = Nil
    /\ baseValue = Nil
    /\ baseSum = Nil
    /\ baseVersion = Nil
    /\ resolvedMessage = <<>>
    /\ err = NoError
    /\ round = 2
    /\ previous = <<>>
    /\ baseVersionStorage = NoStorage
    /\ resolvedStorage = {}

\* entry of Resolve in call c: the clock is read, the running bases are
\* declared
ResolveEnter(c) ==
    /\ calls[c].pc = "call"
    /\ \E now \in PairNowValues :
          calls' = [calls EXCEPT ![c].timeNow = now, ![c].pc = "loop"]
    /\ frames' = [frames EXCEPT ![frameOf(c)] = EmptyBases]
    /\ UNCHANGED <<callVars, pipeline>>

\* one iteration of the loop of call c
ResolveStep(c) ==
    /\ calls[c].pc = "loop"
    /\ Len(calls[c].resolvedMessage) < Len(calls[c].message)
    /\ LET r == loopBody(frames[frameOf(c)],
                         calls[c].message[Len(calls[c].resolvedMessage) + 1],
                         calls[c].timeNow)
       IN  /\ frames' = [frames EXCEPT ![frameOf(c)] = r.bases]
           /\ calls' =
                 IF r.err # NoError
                   THEN [calls EXCEPT ![c].err = r.err, ![c].pc = "done"]
                   ELSE [calls EXCEPT ![c].resolvedMessage = @ \o r.out]
    /\ UNCHANGED <<callVars, pipeline>>

\* call c after its loop: stamp the version, sort, return
ResolveFinish(c) ==
    /\ calls[c].pc = "loop"
    /\ Len(calls[c].resolvedMessage) = Len(calls[c].message)
    /\ calls' =
          [calls EXCEPT
             ![c].resolvedMessage =
                 sortRecordsChronologically(
                     setBaseVersionIfNecessary(
                         @, frames[frameOf(c)].baseVersion)),
             ![c].pc = "done"]
    /\ UNCHANGED <<frames, callVars, pipeline>>

NextPair ==
    \E c \in Calls : ResolveEnter(c) \/ ResolveStep(c) \/ ResolveFinish(c)

SpecPair == InitPair /\ [][NextPair]_vars

(* ------------------------- Decode and Encode --------------------------- *)
(* A JSON document is null or an array of objects; an object maps keys to  *)
(* value tokens.  An XML document is a root element with a sequence of     *)
(* child elements; an element maps attribute names to attribute text.      *)
(* Text is a sequence of characters and character escapes.  "U+0001" is    *)
(* the control character with that code, "U+FFFD" the replacement          *)
(* character.                                                              *)

\* EncodingFormat: JSON = iota, XML
JSON == 0

XML == 1

\* the formats a caller passes: the two declared ones and another number
Formats == {JSON, XML, -1}

ErrUnsupportedFormat == "UnsupportedFormat"

\* the error json.Unmarshal and xml.Unmarshal give for a document that is
\* not of their syntax
ErrSyntax == "SyntaxError"

Fields == DOMAIN EmptyRecord

\* the Go type each field points to
KindOf ==
    [BaseName |-> "string", BaseTime |-> "float", BaseUnit |-> "string",
     BaseValue |-> "float", BaseSum |-> "float", BaseVersion |-> "int",
     Name |-> "string", Unit |-> "string", Value |-> "float",
     BoolValue |-> "bool", StringValue |-> "string", DataValue |-> "string",
     Sum |-> "float", Time |-> "float", UpdateTime |-> "float"]

\* the json struct tags of Record, each split at its commas
jsonTag ==
    [BaseName |-> <<"bn", "omitempty">>, BaseTime |-> <<"bt", "omitempty">>,
     BaseUnit |-> <<"bu", "omitempty">>, BaseValue |-> <<"bv:omitempty">>,
     BaseSum |-> <<"bs:omitempty">>, BaseVersion |-> <<"bver", "omitempty">>,
     Name |-> <<"n", "omitempty">>, Unit |-> <<"u", "omitempty">>,
     Value |-> <<"v", "omitempty">>, BoolValue |-> <<"vb", "omitempty">>,
     StringValue |-> <<"vs", "omitempty">>,
     DataValue |-> <<"vd", "omitempty">>, Sum |-> <<"s", "omitempty">>,
     Time |-> <<"t", "omitempty">>, UpdateTime |-> <<"ut", "omitempty">>]

\* the xml struct tags of Record, each split at its commas
xmlTag ==
    [BaseName |-> <<"bn", "attr", "omitempty">>,
     BaseTime |-> <<"bt", "attr", "omitempty">>,
     BaseUnit |-> <<"bu", "attr", "omitempty">>,
     BaseValue |-> <<"bv", "attr", "omitempty">>,
     BaseSum |-> <<"bs", "attr", "omitempty">>,
     BaseVersion |-> <<"bver", "attr", "omitempty">>,
     Name |-> <<"n", "attr", "omitempty">>,
     Unit |-> <<"u", "attr", "omitempty">>,
     Value |-> <<"v", "attr", "omitempty">>,
     BoolValue |-> <<"vb", "attr", "omitempty">>,
     StringValue |-> <<"vs", "attr", "omitempty">>,
     DataValue |-> <<"vd", "attr", "omitempty">>,
     Sum |-> <<"s", "attr", "omitempty">>,
     Time |-> <<"t", "attr", "omitempty">>,
     UpdateTime |-> <<"ut", "attr", "omitempty">>]

\* the name a tag gives: what stands before its first comma
tagName(tag) == tag[1]

\* the omitempty option: one of the parts after the first comma
omitEmpty(tag) == \E k \in 2..Len(tag) : tag[k] = "omitempty"

\* an emptiness test that also takes a pointer to a zero value for empty
isEmptyValueOfTarget(kind, ptr) ==
    \/ ptr = Nil
    \/ kind \in {"float", "int"} /\ Deref(ptr) = 0
    \/ kind = "bool" /\ Deref(ptr) = FALSE
    \/ kind = "string" /\ Deref(ptr) = <<>>

\* the emptiness test of omitempty: a pointer is empty when it is nil
isEmptyValue(kind, ptr) == ptr = Nil

(* numbers as text *)

Digit == <<"0", "1", "2", "3", "4", "5", "6", "7", "8", "9">>

RECURSIVE FormatNat(_)
FormatNat(n) ==
    IF n < 10 THEN <<Digit[n + 1]>>
    ELSE Append(FormatNat(n \div 10), Digit[(n % 10) + 1])

\* strconv formatting of a number
FormatNumber(x) == IF x < 0 THEN <<"-">> \o FormatNat(0 - x) ELSE FormatNat(x)

DigitValue(c) == CHOOSE d \in 0..9 : Digit[d + 1] = c

RECURSIVE ParseNat(_)
ParseNat(s) ==
    IF Len(s) = 0 THEN 0
    ELSE 10 * ParseNat(SubSeq(s, 1, Len(s) - 1)) + DigitValue(s[Len(s)])

\* strconv parsing of a number
ParseNumber(s) == IF s[1] = "-" THEN 0 - ParseNat(Tail(s)) ELSE ParseNat(s)

FormatBool(b) == IF b THEN <<"t", "r", "u", "e">> ELSE <<"f", "a", "l", "s", "e">>

ParseBool(s) == s = <<"t", "r", "u", "e">>

(* strings as text *)

\* the characters XML can carry: every character of the model but the
\* control character
isInCharacterRange(c) == c # "U+0001"

\* xml escaping of one character of an attribute value
xmlEscapeChar(c) ==
    IF c = "<" THEN "&lt;"
    ELSE IF c = "&" THEN "&amp;"
    ELSE IF ~isInCharacterRange(c) THEN "U+FFFD"
    ELSE c

xmlUnescapeChar(c) ==
    IF c = "&lt;" THEN "<"
    ELSE IF c = "&amp;" THEN "&"
    ELSE c

\* json escaping of one character of a string
jsonEscapeChar(c) ==
    IF c = "<" THEN "\\u003c"
    ELSE IF c = "&" THEN "\\u0026"
    ELSE IF c = "U+0001" THEN "\\u0001"
    ELSE c

jsonUnescapeChar(c) ==
    IF c = "\\u003c" THEN "<"
    ELSE IF c = "\\u0026" THEN "&"
    ELSE IF c = "\\u0001" THEN "U+0001"
    ELSE c

(* JSON *)

jsonNull == [kind |-> "null"]

\* the token json.Marshal writes for a field of the given kind
jsonMarshalValue(kind, ptr) ==
    IF ptr = Nil THEN jsonNull
    ELSE IF kind = "string"
        THEN [kind |-> "string",
              text |-> [k \in 1..Len(Deref(ptr)) |->
                            jsonEscapeChar(Deref(ptr)[k])]]
    ELSE IF kind = "bool"
        THEN [kind |-> "bool", text |-> FormatBool(Deref(ptr))]
    ELSE [kind |-> "number", text |-> FormatNumber(Deref(ptr))]

\* the value json.Unmarshal stores for a token that is not null
jsonUnmarshalValue(kind, token) ==
    IF kind = "string"
        THEN [k \in 1..Len(token.text) |-> jsonUnescapeChar(token.text[k])]
    ELSE IF kind = "bool" THEN ParseBool(token.text)
    ELSE ParseNumber(token.text)

\* the fields json.Marshal writes for a record
jsonWritten(rec) ==
    {f \in Fields :
        ~(omitEmpty(jsonTag[f]) /\ isEmptyValue(KindOf[f], rec[f]))}

jsonMarshalRecord(rec) ==
    [key \in {tagName(jsonTag[f]) : f \in jsonWritten(rec)} |->
        LET f == CHOOSE g \in Fields : tagName(jsonTag[g]) = key
        IN  jsonMarshalValue(KindOf[f], rec[f])]

jsonUnmarshalRecord(object) ==
    [f \in Fields |->
        LET key == tagName(jsonTag[f])
        IN  IF key \in DOMAIN object /\ object[key].kind # "null"
              THEN Some(jsonUnmarshalValue(KindOf[f], object[key]))
              ELSE Nil]

\* json.Marshal(message.Records): a nil slice is written as null
jsonMarshal(records) ==
    IF records = <<>> THEN [syntax |-> "json", kind |-> "null"]
    ELSE [syntax |-> "json", kind |-> "array",
          elems |-> [i \in 1..Len(records) |-> jsonMarshalRecord(records[i])]]

\* json.Unmarshal(encodedMessage, &message.Records)
jsonUnmarshal(doc) ==
    IF doc.syntax # "json" THEN [message |-> <<>>, err |-> ErrSyntax]
    ELSE IF doc.kind = "null" THEN [message |-> <<>>, err |-> NoError]
    ELSE [message |-> [i \in 1..Len(doc.elems) |->
                          jsonUnmarshalRecord(doc.elems[i])],
          err |-> NoError]

(* XML *)

xmlMarshalValue(kind, ptr) ==
    IF kind = "string"
        THEN [k \in 1..Len(Deref(ptr)) |-> xmlEscapeChar(Deref(ptr)[k])]
    ELSE IF kind = "bool" THEN FormatBool(Deref(ptr))
    ELSE FormatNumber(Deref(ptr))

xmlUnmarshalValue(kind, text) ==
    IF kind = "string"
        THEN [k \in 1..Len(text) |-> xmlUnescapeChar(text[k])]
    ELSE IF kind = "bool" THEN ParseBool(text)
    ELSE ParseNumber(text)

\* the fields xml.Marshal writes as attributes of a record's element
xmlWritten(rec) ==
    {f \in Fields :
        /\ rec[f] # Nil
        /\ ~(omitEmpty(xmlTag[f]) /\ isEmptyValue(KindOf[f], rec[f]))}

xmlMarshalRecord(rec) ==
    [attr \in {tagName(xmlTag[f]) : f \in xmlWritten(rec)} |->
        LET f == CHOOSE g \in Fields : tagName(xmlTag[g]) = attr
        IN  xmlMarshalValue(KindOf[f], rec[f])]

xmlUnmarshalRecord(element) ==
    [f \in Fields |->
        LET attr == tagName(xmlTag[f])
        IN  IF attr \in DOMAIN element
              THEN Some(xmlUnmarshalValue(KindOf[f], element[attr]))
              ELSE Nil]

\* xml.Marshal(message): a sensml element with one senml element a record
xmlMarshal(records) ==
    [syntax |-> "xml", kind |-> "sensml",
     elems |-> [i \in 1..Len(records) |-> xmlMarshalRecord(records[i])]]

\* xml.Unmarshal(encodedMessage, &message)
xmlUnmarshal(doc) ==
    IF doc.syntax # "xml" THEN [message |-> <<>>, err |-> ErrSyntax]
    ELSE [message |-> [i \in 1..Len(doc.elems) |->
                          xmlUnmarshalRecord(doc.elems[i])],
          err |-> NoError]

(* the two functions of the package *)

\* Decode whose default case parses the message as JSON
DecodeDefaultJSON(encodedMessage, format) ==
    IF format = XML THEN xmlUnmarshal(encodedMessage)
    ELSE jsonUnmarshal(encodedMessage)

Decode(encodedMessage, format) ==
    IF format = JSON THEN jsonUnmarshal(encodedMessage)
    ELSE IF format = XML THEN xmlUnmarshal(encodedMessage)
    ELSE [message |-> <<>>, err |-> ErrUnsupportedFormat]

Encode(records, format) ==
    IF format = JSON THEN [bytes |-> Some(jsonMarshal(records)), err |-> NoError]
    ELSE IF format = XML
        THEN [bytes |-> Some(xmlMarshal(records)), err |-> NoError]
    ELSE [bytes |-> Nil, err |-> ErrUnsupportedFormat]

(* inputs *)

jsonString(s) == [kind |-> "string", text |-> s]

jsonNumber(n) == [kind |-> "number", text |-> FormatNumber(n)]

jsonTrue == [kind |-> "bool", text |-> FormatBool(TRUE)]

\* JSON objects of a pack: one with base name, base value and base sum, a
\* plain one, one whose strings need escaping, one with the other fields
InputObjects ==
    {[bn |-> jsonString(Str("x")), bv |-> jsonNumber(1), bs |-> jsonNumber(2)],
     [n |-> jsonString(Str("a")), v |-> jsonNumber(1)],
     [n |-> jsonString(Str("a")), vs |-> jsonString(<<"\\u0001">>),
      u |-> jsonString(<<"\\u003c">>)],
     [n |-> jsonString(Str("a")), vb |-> jsonTrue, s |-> jsonNumber(0),
      t |-> jsonNumber(10), ut |-> jsonNumber(5), vd |-> jsonString(Str("a")),
      bver |-> jsonNumber(5)]}

\* senml elements of a pack, by their attributes
InputElements ==
    {[bn |-> Str("x"), bv |-> Str("1"), bs |-> Str("2")],
     [n |-> Str("a"), v |-> Str("1")],
     [n |-> Str("a"), vs |-> <<"&lt;">>, u |-> Str("C")],
     [n |-> Str("a"), vb |-> FormatBool(TRUE), s |-> Str("0"),
      t |-> <<"1", "0">>, ut |-> Str("5"), vd |-> Str("a"),
      bver |-> Str("5")]}

InputDocuments ==
    {[syntax |-> "json", kind |-> "null"]}
    \cup {[syntax |-> "json", kind |-> "array", elems |-> e] :
             e \in UNION {[1..n -> InputObjects] : n \in 0..MaxDocLen}}
    \cup {[syntax |-> "xml", kind |-> "sensml", elems |-> e] :
             e \in UNION {[1..n -> InputElements] : n \in 0..MaxDocLen}}

\* no call of Resolve on its own, no pair of calls
NoCall ==
    /\ message = <<>>
    /\ timeNow \in NowValues
    /\ pc = "done"
    /\ baseName = Nil
    /\ baseTime = Nil
    /\ baseUnit = Nil
    /\ baseValue = Nil
    /\ baseSum = Nil
    /\ baseVersion = Nil
    /\ resolvedMessage = <<>>
    /\ err = NoError
    /\ round = 2
    /\ previous = <<>>
    /\ baseVersionStorage = NoStorage
    /\ resolvedStorage = {}

\* a caller holds an encoded message and a format and is about to decode
InitCodec ==
    /\ pipeline \in
          {[stage |-> "start", format |-> f, encodedMessage |-> d,
            message |-> <<>>, err |-> NoError, resolvedMessage |-> <<>>,
            outFormat |-> f, bytes |-> Nil, again |-> <<>>] :
              f \in Formats, d \in InputDocuments}
    /\ calls = <<>>
    /\ frames = <<>>
    /\ NoCall

\* message, err := Decode(encodedMessage, format)
CallDecode ==
    /\ pipeline.stage = "start"
    /\ LET r == Decode(pipeline.encodedMessage, pipeline.format)
       IN  pipeline' =
             [pipeline EXCEPT
                !.stage = IF r.err = NoError THEN "decoded"
                          ELSE "decodeFailed",
                !.message = r.message,
                !.err = r.err]
    /\ UNCHANGED <<callVars, pairVars>>

\* resolvedMessage, err := message.Resolve()
CallResolve ==
    /\ pipeline.stage = "decoded"
    /\ LET r == ResolveAlone(pipeline.message, timeNow)
       IN  pipeline' =
             [pipeline EXCEPT
                !.stage = IF r.err = NoError THEN "resolved"
                          ELSE "resolveFailed",
                !.resolvedMessage = r.records,
                !.err = r.err]
    /\ UNCHANGED <<callVars, pairVars>>

\* bytes, err := resolvedMessage.Encode(f)
CallEncode ==
    /\ pipeline.stage = "resolved"
    /\ \E f \in Formats :
          LET r == Encode(pipeline.resolvedMessage, f)
          IN  pipeline' =
                [pipeline EXCEPT
                   !.stage = IF r.err = NoError THEN "encoded"
                             ELSE "encodeFailed",
                   !.outFormat = f,
                   !.bytes = r.bytes,
                   !.err = r.err]
    /\ UNCHANGED <<callVars, pairVars>>

\* again, err := Decode(bytes, f)
CallDecodeAgain ==
    /\ pipeline.stage = "encoded"
    /\ LET r == Decode(Deref(pipeline.bytes), pipeline.outFormat)
       IN  pipeline' =
             [pipeline EXCEPT
                !.stage = "again", !.again = r.message, !.err = r.err]
    /\ UNCHANGED <<callVars, pairVars>>

NextCodec == CallDecode \/ CallResolve \/ CallEncode \/ CallDecodeAgain

SpecCodec == InitCodec /\ [][NextCodec]_vars

(* ------------------- what a record inherits, by index ------------------ *)

Max(S) == CHOOSE x \in S : \A y \in S : y <= x

Min(S) == CHOOSE x \in S : \A y \in S : x <= y

\* the records among the first i of the pack that carry field f
Carriers(f, i) == {j \in 1..i : message[j][f] # Nil}

\* field f of the last record, among the first i, that carries it
Inherited(f, i) ==
    IF Carriers(f, i) = {} THEN Nil ELSE message[Max(Carriers(f, i))][f]

OrZero(p) == IF p = Nil THEN 0 ELSE p[1]

OrEmpty(p) == IF p = Nil THEN <<>> ELSE p[1]

\* resolvedMessage[i] is the resolved form of message[i]: always inside the
\* loop and after an error return, and after the final sort when no record
\* has a time (the sort then has nothing to move)
InInputOrder ==
    \/ pc = "loop"
    \/ err # NoError
    \/ \A i \in 1..Len(resolvedMessage) : resolvedMessage[i].Time = Nil

Returned == pc = "done"

\* the record at which an error return happened
FailedAt == Len(resolvedMessage) + 1

(* -------------------------------- C1 ----------------------------------- *)

\* C1: base inheritance is forward-only and last-write-wins.  After n
\* records the running base of each of base_name, base_time, base_unit,
\* base_value, base_sum is the field of the highest-indexed record j <= n
\* carrying it (nil if none), and record i is resolved against the bases
\* inherited at i, which read records 1..i only; a carried "" or 0 replaces
\* the inherited value like any other.
C1_ForwardOnlyLastWriteWins ==
    /\ err = NoError =>
          LET n == Len(resolvedMessage)
          IN  /\ baseName = Inherited("BaseName", n)
              /\ baseTime = Inherited("BaseTime", n)
              /\ baseUnit = Inherited("BaseUnit", n)
              /\ baseValue = Inherited("BaseValue", n)
              /\ baseSum = Inherited("BaseSum", n)
    /\ InInputOrder =>
          \A i \in 1..Len(resolvedMessage) :
              /\ resolvedMessage[i].Name =
                    resolveName(Inherited("BaseName", i), message[i].Name).ptr
              /\ resolvedMessage[i].Unit =
                    resolveUnit(Inherited("BaseUnit", i), message[i].Unit)
              /\ resolvedMessage[i].Value =
                    resolveValue(Inherited("BaseValue", i), message[i].Value)
              /\ resolvedMessage[i].Sum =
                    resolveSum(Inherited("BaseSum", i), message[i].Sum)
              /\ resolvedMessage[i].Time =
                    resolveTime(Inherited("BaseTime", i), message[i].Time,
                                timeNow)

\* a base value 2 replaced by a base value 0, then inherited by a record
\* that carries no base value
C1_Witness ==
    /\ Returned /\ err = NoError /\ Len(message) = 3
    /\ message[1].BaseValue = Some(2)
    /\ message[2].BaseValue = Some(0)
    /\ message[3].BaseValue = Nil
    /\ message[3].Value = Some(1)
    /\ resolvedMessage[3].Value = Some(1)

(* -------------------------------- C2 ----------------------------------- *)

\* C2: the resolved name of every resolved record is the running base name
\* (empty if none) followed by the record's own name (empty if none).
C2_NameIsConcatenation ==
    InInputOrder =>
        \A i \in 1..Len(resolvedMessage) :
            resolvedMessage[i].Name =
                Some(OrEmpty(Inherited("BaseName", i))
                     \o OrEmpty(message[i].Name))

\* [{bn:"a"}, {n:"-"}] resolves names to ["a", "a-"]
C2_Witness ==
    /\ Returned /\ err = NoError /\ Len(message) >= 2
    /\ message[1].BaseName = Some(<<"a">>) /\ message[1].Name = Nil
    /\ message[2].BaseName = Nil /\ message[2].Name = Some(<<"-">>)
    /\ resolvedMessage[1].Name = Some(<<"a">>)
    /\ resolvedMessage[2].Name = Some(<<"a", "-">>)

(* -------------------------------- C3 ----------------------------------- *)

\* what an additive field resolves to from an inherited base and an own
\* field
Added(base, own) ==
    IF base = Nil /\ own = Nil THEN Nil ELSE Some(OrZero(base) + OrZero(own))

\* C3: value and sum are additive and presence-tracking, independently:
\* resolved = (base or 0) + (own or 0), present iff the base slot or the own
\* field is set; a base of 0 counts as set.
C3_ValueSumAdditive ==
    InInputOrder =>
        \A i \in 1..Len(resolvedMessage) :
            /\ resolvedMessage[i].Value =
                  Added(Inherited("BaseValue", i), message[i].Value)
            /\ resolvedMessage[i].Sum =
                  Added(Inherited("BaseSum", i), message[i].Sum)

\* base value 0 with no own value gives a present 0, base value 2 plus own 1
\* gives 3, and a record touching neither keeps value absent
C3_Witness ==
    /\ Returned /\ err = NoError /\ Len(message) = 3
    /\ message[1].BaseValue = Nil /\ message[1].Value = Nil
    /\ resolvedMessage[1].Value = Nil
    /\ message[2].BaseValue = Some(0) /\ message[2].Value = Nil
    /\ resolvedMessage[2].Value = Some(0)
    /\ message[3].BaseValue = Some(2) /\ message[3].Value = Some(1)
    /\ resolvedMessage[3].Value = Some(3)

(* -------------------------------- C4 ----------------------------------- *)

\* C4: unit overrides: the resolved unit is the record's own unit when it
\* carries one (even ""), else the running base unit, else absent; an own
\* unit never becomes the base unit of a later record.
C4_UnitOverrides ==
    InInputOrder =>
        \A i \in 1..Len(resolvedMessage) :
            resolvedMessage[i].Unit =
                IF message[i].Unit # Nil THEN message[i].Unit
                ELSE Inherited("BaseUnit", i)

\* [{bu:"C"}, {u:"F"}, {}] resolves units to ["C", "F", "C"]
C4_Witness ==
    /\ Returned /\ err = NoError /\ Len(message) = 3
    /\ message[1].BaseUnit = Some(<<"C">>) /\ message[1].Unit = Nil
    /\ message[2].BaseUnit = Nil /\ message[2].Unit = Some(<<"F">>)
    /\ message[3].BaseUnit = Nil /\ message[3].Unit = Nil
    /\ resolvedMessage[1].Unit = Some(<<"C">>)
    /\ resolvedMessage[2].Unit = Some(<<"F">>)
    /\ resolvedMessage[3].Unit = Some(<<"C">>)

(* -------------------------------- C5 ----------------------------------- *)

\* the stated boundary between relative and absolute time, 2 to the 28th
TwoToThe28 == 2 ^ 28

\* C5: for every record whose summed time (base_time + time) is present,
\* the output time is the sum unchanged if the sum >= 268435456 and the sum
\* plus wall-clock now if the sum < 268435456.
C5_BoundaryIsTwoToThe28 ==
    InInputOrder =>
        \A i \in 1..Len(resolvedMessage) :
            LET sum == Added(Inherited("BaseTime", i), message[i].Time)
            IN  sum # Nil =>
                  resolvedMessage[i].Time =
                      IF sum[1] >= TwoToThe28 THEN sum
                      ELSE Some(sum[1] + timeNow)

(* -------------------------------- C6 ----------------------------------- *)

\* C6: time is additive and presence-tracking: the output time is present
\* iff a base time is in effect or the record carries its own time, and it
\* is then (base time or 0) + (own time or 0), as it stands or shifted by
\* wall-clock now; a record with neither has no time.
C6_TimeAdditive ==
    InInputOrder =>
        \A i \in 1..Len(resolvedMessage) :
            LET sum == Added(Inherited("BaseTime", i), message[i].Time)
            IN  /\ resolvedMessage[i].Time = Nil <=> sum = Nil
                /\ sum # Nil =>
                      \/ resolvedMessage[i].Time = sum
                      \/ Deref(resolvedMessage[i].Time) - timeNow = sum[1]

\* base time 20 plus own time 10 gives 30, and a record with neither base
\* time nor own time has no time
C6_Witness ==
    /\ pc = "loop" /\ Len(resolvedMessage) = 2
    /\ message[1].BaseTime = Nil /\ message[1].Time = Nil
    /\ resolvedMessage[1].Time = Nil
    /\ message[2].BaseTime = Some(20) /\ message[2].Time = Some(10)
    /\ resolvedMessage[2].Time = Some(30)

(* -------------------------------- C7 ----------------------------------- *)

\* the characters a name may consist of
NameCharacters == Alnum \cup {"-", ":", ".", "/", "_"}

\* base name in effect at record i followed by the record's own name
ConcatName(i) ==
    OrEmpty(Inherited("BaseName", i)) \o OrEmpty(message[i].Name)

HasForbiddenCharacter(nm) == \E k \in 1..Len(nm) : nm[k] \notin NameCharacters

HasBadStart(nm) == nm # <<>> /\ nm[1] \notin Alnum

BadName(nm) == nm = <<>> \/ HasForbiddenCharacter(nm) \/ HasBadStart(nm)

VersionErrors == {ErrUnsupportedVersion, ErrInconsistentVersion}

\* C7: Resolve fails whenever some record's concatenated name is empty,
\* contains a character outside [A-Za-z0-9-:./_] or does not start with an
\* alphanumeric character; a name error is only ever raised for such a name
\* and its kind names a defect the name has; the first record with a bad
\* name, once reached and past the version check, fails with EmptyName for
\* an empty name, InvalidNameStart for a name of allowed characters with a
\* bad start, InvalidNameCharacters for a forbidden character after a good
\* start.
C7_NameGrammar ==
    Returned =>
        /\ (\E i \in 1..Len(message) : BadName(ConcatName(i)))
              => err # NoError
        /\ err \in NameErrors =>
              /\ FailedAt <= Len(message)
              /\ err = ErrEmptyName => ConcatName(FailedAt) = <<>>
              /\ err = ErrInvalidNameCharacters =>
                    HasForbiddenCharacter(ConcatName(FailedAt))
              /\ err = ErrInvalidNameStart =>
                    HasBadStart(ConcatName(FailedAt))
        /\ \A i \in 1..Len(message) :
              (/\ BadName(ConcatName(i))
               /\ FailedAt = i
               /\ err \notin VersionErrors)
              => LET nm == ConcatName(i)
                 IN  /\ nm = <<>> => err = ErrEmptyName
                     /\ (HasBadStart(nm) /\ ~HasForbiddenCharacter(nm))
                           => err = ErrInvalidNameStart
                     /\ (HasForbiddenCharacter(nm) /\ ~HasBadStart(nm))
                           => err = ErrInvalidNameCharacters

\* the second record's name "-a" is rejected for its start
C7_Witness ==
    /\ Returned /\ err = ErrInvalidNameStart /\ FailedAt = 2
    /\ ConcatName(2) = <<"-", "a">>

(* -------------------------------- C8 ----------------------------------- *)

\* record i has, after base resolution, none of value, bool_value,
\* string_value, data_value, sum
NoneOfFive(i) ==
    /\ Inherited("BaseValue", i) = Nil /\ message[i].Value = Nil
    /\ Inherited("BaseSum", i) = Nil /\ message[i].Sum = Nil
    /\ message[i].BoolValue = Nil
    /\ message[i].StringValue = Nil
    /\ message[i].DataValue = Nil

\* C8: Resolve fails with MissingValue only at a record that has none of
\* the five value fields after base resolution; the first such record fails
\* with MissingValue when no error precedes it (every record up to it has a
\* valid name and none carries base_version); a pack that resolves has no
\* such record.
C8_MissingValue ==
    Returned =>
        /\ err = ErrMissingValue =>
              FailedAt <= Len(message) /\ NoneOfFive(FailedAt)
        /\ err = NoError => \A i \in 1..Len(message) : ~NoneOfFive(i)
        /\ \A i \in 1..Len(message) :
              (/\ NoneOfFive(i)
               /\ \A j \in 1..(i - 1) : ~NoneOfFive(j)
               /\ \A j \in 1..i : ~BadName(ConcatName(j))
               /\ Carriers("BaseVersion", i) = {})
              => err = ErrMissingValue /\ FailedAt = i

\* a record with only a string value resolves, the next one with nothing
\* but a name is rejected
C8_Witness ==
    /\ Returned /\ err = ErrMissingValue /\ FailedAt = 2
    /\ message[1].StringValue # Nil /\ message[1].BoolValue = Nil
    /\ message[1].DataValue = Nil
    /\ Len(resolvedMessage) = 1

(* -------------------------------- C9 ----------------------------------- *)

\* C9: whenever Resolve returns an error, the pack returned alongside it
\* contains no records.
C9_ErrorReturnsNoRecords ==
    (Returned /\ err # NoError) => resolvedMessage = <<>>

(* -------------------------------- C10 ---------------------------------- *)

\* record k >= 2 is the first of the pack to carry base_version, and the
\* version it carries is supported
FirstVersionAt(k) ==
    /\ k >= 2
    /\ Carriers("BaseVersion", k) = {k}
    /\ Deref(message[k].BaseVersion) <= SupportedVersion

\* C10 as stated: when record k >= 2 is the first to carry base_version,
\* with v <= 10, Resolve adopts v as the effective version and does not
\* fail with InconsistentVersion at record k.
C10_FirstVersionAdopted ==
    \A k \in 1..Len(message) :
        FirstVersionAt(k) =>
            /\ ~(err = ErrInconsistentVersion /\ FailedAt = k)
            /\ (err = NoError /\ Len(resolvedMessage) >= k)
                  => baseVersion = message[k].BaseVersion

\* C10 amended: a first record without base_version fixes the effective
\* version to the default 10; when record k >= 2 is the first to carry
\* base_version, with v <= 10, the version check at k passes if v = 10 and
\* fails with InconsistentVersion if v < 10.  InconsistentVersion is raised
\* only at a record k >= 2 whose base_version differs from the version the
\* first record fixed (its own base_version, or 10).
C10_DefaultVersionFixedByFirstRecord ==
    /\ \A k \in 1..Len(message) :
          FirstVersionAt(k) =>
              /\ Len(resolvedMessage) >= 1
                    => baseVersion = Some(SupportedVersion)
              /\ (Returned /\ Len(resolvedMessage) >= k - 1) =>
                    IF Deref(message[k].BaseVersion) = SupportedVersion
                        THEN ~(err = ErrInconsistentVersion /\ FailedAt = k)
                        ELSE err = ErrInconsistentVersion /\ FailedAt = k
    /\ err = ErrInconsistentVersion =>
          /\ FailedAt >= 2 /\ FailedAt <= Len(message)
          /\ message[FailedAt].BaseVersion # Nil
          /\ Deref(message[FailedAt].BaseVersion) #
                IF message[1].BaseVersion # Nil
                    THEN Deref(message[1].BaseVersion)
                    ELSE SupportedVersion

\* [{}, {bver:5}] fails with InconsistentVersion at the second record
C10_Witness ==
    /\ Returned /\ err = ErrInconsistentVersion /\ FailedAt = 2
    /\ message[1].BaseVersion = Nil
    /\ message[2].BaseVersion = Some(5)

(* -------------------------------- C11 ---------------------------------- *)

\* record i carries a base_version the library supports
CarriesSupported(i) ==
    /\ message[i].BaseVersion # Nil
    /\ Deref(message[i].BaseVersion) <= SupportedVersion

\* C11: when two records carry different base_version values, both <= 10,
\* and every record before the later of the two resolved, Resolve fails
\* with InconsistentVersion at the later one.
C11_DifferentVersionsFail ==
    Returned =>
        \A j \in 1..Len(message) : \A i \in 1..(j - 1) :
            (/\ CarriesSupported(i) /\ CarriesSupported(j)
             /\ message[i].BaseVersion # message[j].BaseVersion
             /\ Len(resolvedMessage) >= j - 1)
            => err = ErrInconsistentVersion /\ FailedAt = j

\* a pack mixing base_version 5 and 6 fails at the record that carries 6
C11_Witness ==
    /\ Returned /\ err = ErrInconsistentVersion /\ FailedAt = 3
    /\ message[1].BaseVersion = Some(5)
    /\ message[2].BaseVersion = Nil
    /\ message[3].BaseVersion = Some(6)

(* -------------------------------- C12 ---------------------------------- *)

\* C12: a record carrying base_version > 10, reached without an earlier
\* failure, makes Resolve fail with UnsupportedVersion; UnsupportedVersion
\* is raised only for a base_version > 10.
C12_UnsupportedVersion ==
    Returned =>
        /\ \A k \in 1..Len(message) :
              (/\ message[k].BaseVersion # Nil
               /\ Deref(message[k].BaseVersion) > SupportedVersion
               /\ Len(resolvedMessage) >= k - 1)
              => err = ErrUnsupportedVersion /\ FailedAt = k
        /\ err = ErrUnsupportedVersion =>
              /\ FailedAt <= Len(message)
              /\ message[FailedAt].BaseVersion # Nil
              /\ Deref(message[FailedAt].BaseVersion) > SupportedVersion

\* base_version 10 is accepted, base_version 11 after it is rejected
C12_Witness ==
    /\ Returned /\ err = ErrUnsupportedVersion /\ FailedAt = 2
    /\ message[1].BaseVersion = Some(10)
    /\ message[2].BaseVersion = Some(11)
    /\ Len(resolvedMessage) = 1

(* -------------------------------- C13 ---------------------------------- *)

\* the base_version values the records of the pack carry
DeclaredVersions ==
    {Deref(message[i].BaseVersion) :
        i \in Carriers("BaseVersion", Len(message))}

\* C13: after a successful Resolve every input record has an output record;
\* when the pack declares a version v < 10 every output record has
\* base_version = v, and when it declares none, or 10, base_version is
\* absent on every output record.
C13_VersionPropagation ==
    (Returned /\ err = NoError) =>
        /\ Len(resolvedMessage) = Len(message)
        /\ \A v \in DeclaredVersions :
              v < SupportedVersion =>
                  \A i \in 1..Len(resolvedMessage) :
                      resolvedMessage[i].BaseVersion = Some(v)
        /\ DeclaredVersions \subseteq {SupportedVersion} =>
              \A i \in 1..Len(resolvedMessage) :
                  resolvedMessage[i].BaseVersion = Nil

\* [{bver:5}, {}, {}] resolves with base_version 5 on all three records
C13_Witness ==
    /\ round = 1 /\ Returned /\ err = NoError /\ Len(message) = 3
    /\ message[1].BaseVersion = Some(5)
    /\ message[2].BaseVersion = Nil
    /\ message[3].BaseVersion = Nil
    /\ resolvedMessage[2].BaseVersion = Some(5)
    /\ resolvedMessage[3].BaseVersion = Some(5)

(* -------------------------------- C14 ---------------------------------- *)

\* C14: after a successful Resolve no dated record precedes an undated one
\* and the times of the dated records, as resolved, never decrease.
C14_ChronologicalOrder ==
    (Returned /\ err = NoError) =>
        \A j \in 1..Len(resolvedMessage) : \A i \in 1..(j - 1) :
            /\ ~(resolvedMessage[i].Time # Nil /\ resolvedMessage[j].Time = Nil)
            /\ (resolvedMessage[i].Time # Nil /\ resolvedMessage[j].Time # Nil)
                  => Deref(resolvedMessage[i].Time)
                        <= Deref(resolvedMessage[j].Time)

\* times [10, none, 268435456] come out as [none, 268435456, 10 + now]: the
\* order is that of the converted times
C14_Witness ==
    /\ round = 1 /\ Returned /\ err = NoError /\ Len(message) = 3
    /\ message[1].BaseTime = Nil /\ message[1].Time = Some(10)
    /\ message[2].BaseTime = Nil /\ message[2].Time = Nil
    /\ message[3].BaseTime = Nil /\ message[3].Time = Some(268435456)
    /\ resolvedMessage[1].Time = Nil
    /\ resolvedMessage[2].Time = Some(268435456)
    /\ resolvedMessage[3].Time = Some(10 + timeNow)

(* -------------------------------- C15 ---------------------------------- *)

\* the records of s whose time is t, in the order they have in s
RECURSIVE WithTime(_, _)
WithTime(s, t) ==
    IF s = <<>> THEN <<>>
    ELSE IF s[Len(s)].Time = t
        THEN Append(WithTime(SubSeq(s, 1, Len(s) - 1), t), s[Len(s)])
        ELSE WithTime(SubSeq(s, 1, Len(s) - 1), t)

\* s without the version stamps
Unstamped(s) == [i \in 1..Len(s) |-> [s[i] EXCEPT !.BaseVersion = Nil]]

\* the return step keeps, for every time t (and for no time), the records
\* with that time in the order the loop appended them, the input order
ReturnKeepsTies ==
    (pc = "loop" /\ pc' = "done" /\ err' = NoError) =>
        \A t \in {resolvedMessage[i].Time : i \in 1..Len(resolvedMessage)} :
            WithTime(Unstamped(resolvedMessage'), t)
                = WithTime(Unstamped(resolvedMessage), t)

\* C15: the sort is stable: output records that compare equal (both without
\* time, or with the same resolved time) keep their input order.
C15_SortIsStable == [][ReturnKeepsTies]_vars

\* [{t:268435457, v:3}, {v:1}, {v:2}] resolves to value order [1, 2, 3]
C15_Witness ==
    /\ round = 1 /\ Returned /\ err = NoError /\ Len(message) = 3
    /\ message[1].Time = Some(268435457) /\ message[1].Value = Some(3)
    /\ message[2].Time = Nil /\ message[2].Value = Some(1)
    /\ message[3].Time = Nil /\ message[3].Value = Some(2)
    /\ resolvedMessage[1].Value = Some(1)
    /\ resolvedMessage[2].Value = Some(2)
    /\ resolvedMessage[3].Value = Some(3)

(* -------------------------------- C16 ---------------------------------- *)

\* the version the first record fixes for the records after it
VersionOfFirst ==
    IF message[1].BaseVersion # Nil
        THEN Deref(message[1].BaseVersion)
        ELSE SupportedVersion

\* the errors the checks of record i can raise, taking the checks in the
\* order version (unsupported, then inconsistent), name, value presence and
\* stopping at the first that fails; empty for a valid record
FirstDefect(i) ==
    IF message[i].BaseVersion # Nil
       /\ Deref(message[i].BaseVersion) > SupportedVersion
        THEN {ErrUnsupportedVersion}
    ELSE IF i >= 2 /\ message[i].BaseVersion # Nil
            /\ Deref(message[i].BaseVersion) # VersionOfFirst
        THEN {ErrInconsistentVersion}
    ELSE IF BadName(ConcatName(i)) THEN NameErrors
    ELSE IF NoneOfFive(i) THEN {ErrMissingValue}
    ELSE {}

InvalidRecords == {i \in 1..Len(message) : FirstDefect(i) # {}}

\* the running bases are those inherited at record n
BasesAsAt(n) ==
    /\ baseName = Inherited("BaseName", n)
    /\ baseTime = Inherited("BaseTime", n)
    /\ baseUnit = Inherited("BaseUnit", n)
    /\ baseValue = Inherited("BaseValue", n)
    /\ baseSum = Inherited("BaseSum", n)

\* C16: Resolve fails at the lowest-indexed invalid record, with the error
\* of the first check that record fails in the order unsupported version,
\* inconsistent version, name, value presence; the records after it are not
\* examined (the running bases hold nothing of them), and a pack without an
\* invalid record resolves.
C16_FailFast ==
    Returned =>
        IF InvalidRecords = {}
            THEN err = NoError /\ Len(resolvedMessage) = Len(message)
            ELSE /\ FailedAt = Min(InvalidRecords)
                 /\ err \in FirstDefect(Min(InvalidRecords))
                 /\ IF err \in VersionErrors
                        THEN BasesAsAt(FailedAt - 1)
                        ELSE BasesAsAt(FailedAt)

\* the second record has an invalid name and no value and fails with a name
\* error; the third, with base_version 11, is never reached
C16_Witness ==
    /\ Returned /\ err = ErrInvalidNameStart /\ FailedAt = 2
    /\ Len(message) = 3
    /\ message[2].Name = Some(<<"-">>) /\ message[2].Value = Nil
    /\ message[3].BaseVersion = Some(11)

(* -------------------------------- C17 ---------------------------------- *)

\* C17: base_name, base_time, base_unit, base_value and base_sum are absent
\* on every resolved record, whatever the input records carried.
C17_BaseAttributesEliminated ==
    \A i \in 1..Len(resolvedMessage) :
        /\ resolvedMessage[i].BaseName = Nil
        /\ resolvedMessage[i].BaseTime = Nil
        /\ resolvedMessage[i].BaseUnit = Nil
        /\ resolvedMessage[i].BaseValue = Nil
        /\ resolvedMessage[i].BaseSum = Nil

\* a pack whose records carry base_time and base_name has resolved
C17_Witness ==
    /\ round = 1 /\ Returned /\ err = NoError /\ Len(message) = 2
    /\ message[1].BaseTime = Some(20) /\ message[1].BaseName = Some(<<"a">>)
    /\ message[2].BaseTime = Some(20) /\ message[2].BaseName = Nil
    /\ Len(resolvedMessage) = 2
    /\ resolvedMessage[2].Name = Some(<<"a", "a">>)

(* -------------------------------- C18 ---------------------------------- *)

\* C18: after a successful Resolve every output record has a non-empty name
\* of allowed characters with an alphanumeric start, and at least one of
\* value, bool_value, string_value, data_value, sum.
C18_ResolvedRecordInvariants ==
    (Returned /\ err = NoError) =>
        \A i \in 1..Len(resolvedMessage) :
            /\ resolvedMessage[i].Name # Nil
            /\ ~BadName(Deref(resolvedMessage[i].Name))
            /\ \/ resolvedMessage[i].Value # Nil
               \/ resolvedMessage[i].BoolValue # Nil
               \/ resolvedMessage[i].StringValue # Nil
               \/ resolvedMessage[i].DataValue # Nil
               \/ resolvedMessage[i].Sum # Nil

\* a pack resolved to the names "a", "a-", "aa"
C18_Witness ==
    /\ round = 1 /\ Returned /\ err = NoError /\ Len(message) = 3
    /\ resolvedMessage[1].Name = Some(<<"a">>)
    /\ resolvedMessage[2].Name = Some(<<"a", "-">>)
    /\ resolvedMessage[3].Name = Some(<<"a", "a">>)

(* -------------------------------- C19 ---------------------------------- *)

\* C19: bool_value, string_value, data_value and update_time of a resolved
\* record are those of the input record, present or absent alike; bases and
\* the time conversion leave them alone.
C19_PassThrough ==
    InInputOrder =>
        \A i \in 1..Len(resolvedMessage) :
            /\ resolvedMessage[i].BoolValue = message[i].BoolValue
            /\ resolvedMessage[i].StringValue = message[i].StringValue
            /\ resolvedMessage[i].DataValue = message[i].DataValue
            /\ resolvedMessage[i].UpdateTime = message[i].UpdateTime

\* under a base time 20 and a base name "a" the second record's time is
\* shifted by now and its name is "aa", its update time 5 and its bool
\* value stay as they were
C19_Witness ==
    /\ round = 1 /\ Len(resolvedMessage) = 2
    /\ message[1].BaseTime = Some(20) /\ message[1].BaseName = Some(<<"a">>)
    /\ message[2].UpdateTime = Some(5) /\ message[2].BoolValue = Some(FALSE)
    /\ resolvedMessage[2].Time = Some(20 + timeNow)
    /\ resolvedMessage[2].Name = Some(<<"a", "a">>)
    /\ resolvedMessage[2].UpdateTime = Some(5)
    /\ resolvedMessage[2].BoolValue = Some(FALSE)

(* -------------------------------- C20 ---------------------------------- *)

\* every time of the pack is absent or absolute
AllAbsolute(pack) ==
    \A i \in 1..Len(pack) :
        pack[i].Time = Nil \/ Deref(pack[i].Time) >= TwoToThe28

\* C20: resolving again a pack R that a successful Resolve returned, whose
\* times are all absent or absolute, succeeds and returns the records of R,
\* field for field and in the same order.
C20_IdempotentOnResolved ==
    (round = 2 /\ Returned /\ AllAbsolute(previous)) =>
        err = NoError /\ resolvedMessage = previous

\* a resolved pack with an undated record and a record whose relative time
\* was converted, resolved again at a later clock reading
C20_Witness ==
    /\ round = 2 /\ Returned /\ Len(previous) = 3
    /\ previous[1].Time = Nil
    /\ previous[3].Time = Some(1700000010)
    /\ timeNow = 1700000060
    /\ resolvedMessage = previous

(* -------------------------------- C21 ---------------------------------- *)

\* a step of one call leaves the pack handed to it as it is, and leaves no
\* pointer of the result pointing into the storage of that pack
ResolveLeavesInput ==
    /\ round' = round => message' = message
    /\ InputStorage \notin resolvedStorage'

\* C21: Resolve is pure with respect to its input.  No step of a call, up to
\* and including the one that returns (with or without an error), changes a
\* field of a record of the input pack or the order of its records, and no
\* pointer of an output record points into the storage of the input pack,
\* the base_version pointers written before the sort included: nothing done
\* to the output later can reach the input.
C21_ResolveIsPure == [][ResolveLeavesInput]_vars

\* a pack declaring version 5 has been resolved: baseVersion points at the
\* base_version of the first input record, every output record carries a
\* base_version of 5 in storage of the call, and the pack is as it was
C21_Witness ==
    /\ round = 1 /\ pc = "done" /\ err = NoError
    /\ Len(message) = 2
    /\ message[1].BaseVersion = Some(5) /\ message[2].BaseVersion = Nil
    /\ baseVersionStorage = InputStorage
    /\ resolvedMessage[2].BaseVersion = Some(5)
    /\ resolvedStorage = {CallStorage}

(* -------------------------------- C22 ---------------------------------- *)

\* the summed time of record i: base time in effect plus own time
TimeSum(i) == Added(Inherited("BaseTime", i), message[i].Time)

\* record i has a summed time below the threshold resolveTime compares with
IsRelative(i) == TimeSum(i) # Nil /\ TimeSum(i)[1] < RelativeTimeLimit

\* C22: wall-clock time is read once per call.  All records of one pack
\* whose summed time is below the threshold at which resolveTime converts
\* are shifted by the same value, the reading of the clock made on entry:
\* for any two of them the difference of the output times is the difference
\* of the summed times, and equal summed times give equal output times.
\* (Which number the threshold is, is the matter of C5.)
C22_OneClockReading ==
    InInputOrder =>
        \A i, j \in 1..Len(resolvedMessage) :
            IsRelative(i) /\ IsRelative(j) =>
                /\ Deref(resolvedMessage[i].Time) - TimeSum(i)[1] = timeNow
                /\ Deref(resolvedMessage[i].Time)
                       - Deref(resolvedMessage[j].Time)
                     = TimeSum(i)[1] - TimeSum(j)[1]
                /\ TimeSum(i) = TimeSum(j) =>
                       resolvedMessage[i].Time = resolvedMessage[j].Time

\* three records with summed times 10, 20 and 10 have been resolved to
\* now + 10, now + 20 and now + 10
C22_Witness ==
    /\ round = 1 /\ pc = "loop" /\ Len(resolvedMessage) = 3
    /\ TimeSum(1) = Some(10) /\ TimeSum(2) = Some(20) /\ TimeSum(3) = Some(10)
    /\ resolvedMessage[1].Time = Some(timeNow + 10)
    /\ resolvedMessage[2].Time = Some(timeNow + 20)
    /\ resolvedMessage[3].Time = resolvedMessage[1].Time

(* -------------------------------- C23 ---------------------------------- *)

\* the running bases a call has after resolving the first n records of its
\* pack with nothing in between
RECURSIVE BasesAfter(_, _, _)
BasesAfter(pack, now, n) ==
    IF n = 0 THEN EmptyBases
    ELSE loopBody(BasesAfter(pack, now, n - 1), pack[n], now).bases

\* C23: concurrent resolution is isolated.  In every interleaving of the
\* steps of two calls of Resolve on two packs, a call that has returned has
\* returned the records and the error it returns when run alone with the
\* same reading of the clock, and while a call is in its loop its running
\* bases and effective version are those its own records have produced:
\* the other call has neither written them nor had its own read.
C23_ConcurrentCallsIsolated ==
    \A c \in Calls :
        /\ calls[c].pc = "done" =>
              [records |-> calls[c].resolvedMessage, err |-> calls[c].err]
                 = ResolveAlone(calls[c].message, calls[c].timeNow)
        /\ calls[c].pc = "loop" =>
              frames[c] = BasesAfter(calls[c].message, calls[c].timeNow,
                                     Len(calls[c].resolvedMessage))

\* call 1 has set a base name and declared version 5 and is still in its
\* loop, while call 2, entered after that, has returned EmptyName for a
\* pack whose record has no name: it has not seen the base name of call 1
C23_Witness ==
    /\ calls[1].pc = "loop" /\ Len(calls[1].resolvedMessage) = 1
    /\ Len(calls[1].message) = 2
    /\ frames[1].baseName = Some(Str("b"))
    /\ calls[2].pc = "done" /\ calls[2].err = ErrEmptyName
    /\ frames[2].baseName = Nil /\ frames[2].baseTime = Some(20)

(* -------------------------------- C24 ---------------------------------- *)

SupportedFormats == {JSON, XML}

\* C24: an unsupported format is an error.  Decode called with a format
\* that is neither JSON nor XML returns the UnsupportedFormat error and a
\* pack with no records, whatever the encoded message holds; Encode called
\* with such a format returns the UnsupportedFormat error and no bytes.
\* With JSON or XML neither returns that error.
C24_UnsupportedFormatIsError ==
    /\ pipeline.stage \in {"decoded", "decodeFailed"} =>
          IF pipeline.format \in SupportedFormats
            THEN pipeline.err # ErrUnsupportedFormat
            ELSE /\ pipeline.stage = "decodeFailed"
                 /\ pipeline.err = ErrUnsupportedFormat
                 /\ pipeline.message = <<>>
    /\ pipeline.stage \in {"encoded", "encodeFailed"} =>
          IF pipeline.outFormat \in SupportedFormats
            THEN pipeline.stage = "encoded" /\ pipeline.bytes # Nil
            ELSE /\ pipeline.stage = "encodeFailed"
                 /\ pipeline.err = ErrUnsupportedFormat
                 /\ pipeline.bytes = Nil

\* Decode has been called with format -1 on a JSON array of two objects and
\* has returned the error and no record
C24_Witness ==
    /\ pipeline.stage = "decodeFailed"
    /\ pipeline.format = -1
    /\ pipeline.encodedMessage.syntax = "json"
    /\ pipeline.encodedMessage.kind = "array"
    /\ Len(pipeline.encodedMessage.elems) = 2
    /\ pipeline.err = ErrUnsupportedFormat
    /\ pipeline.message = <<>>

(* -------------------------------- C25 ---------------------------------- *)

\* the tag of each field on the wire
WireTag ==
    [BaseName |-> "bn", BaseTime |-> "bt", BaseUnit |-> "bu",
     BaseValue |-> "bv", BaseSum |-> "bs", BaseVersion |-> "bver",
     Name |-> "n", Unit |-> "u", Value |-> "v", BoolValue |-> "vb",
     StringValue |-> "vs", DataValue |-> "vd", Sum |-> "s", Time |-> "t",
     UpdateTime |-> "ut"]

\* the members of a document: objects of a JSON array, elements of XML
Members(doc) == IF doc.kind = "null" THEN <<>> ELSE doc.elems

\* the JSON array holding the one object {"bn":"x","bv":1,"bs":2}
BaseValueExample ==
    [syntax |-> "json", kind |-> "array",
     elems |-> <<[bn |-> jsonString(Str("x")), bv |-> jsonNumber(1),
                  bs |-> jsonNumber(2)]>>]

\* C25: every record field is read from and written to the wire under
\* exactly its tag, in JSON and in XML.  A decoded record has a field if and
\* only if the member it was decoded from has the field's tag; decoding
\* {"bn":"x","bv":1,"bs":2} gives base_value 1 and base_sum 2; an encoded
\* member has exactly the tags of the fields its record has, so a record
\* without base_value and base_sum is written without a key for them.
C25_WireFieldTags ==
    /\ pipeline.stage = "decoded" =>
          /\ \A i \in 1..Len(pipeline.message) : \A f \in Fields :
                pipeline.message[i][f] # Nil <=>
                   WireTag[f] \in DOMAIN Members(pipeline.encodedMessage)[i]
          /\ pipeline.encodedMessage = BaseValueExample =>
                /\ pipeline.message[1].BaseValue = Some(1)
                /\ pipeline.message[1].BaseSum = Some(2)
    /\ pipeline.stage = "encoded" =>
          \A i \in 1..Len(pipeline.resolvedMessage) :
              DOMAIN Members(Deref(pipeline.bytes))[i] =
                  {WireTag[f] : f \in {g \in Fields :
                                   pipeline.resolvedMessage[i][g] # Nil}}

(* -------------------------------- C26 ---------------------------------- *)

StringsOf(records) ==
    UNION {{Deref(records[i][f]) :
               f \in {g \in Fields :
                         KindOf[g] = "string" /\ records[i][g] # Nil}} :
              i \in 1..Len(records)}

\* every character of every string of the pack is one XML can carry
CarriedByXML(records) ==
    \A str \in StringsOf(records) : \A k \in 1..Len(str) : str[k] # "U+0001"

StartOnlyForbidden == {"-", ":", ".", "/", "_"}

\* C27: the name checks have a fixed precedence.  When Resolve returns a
\* name error for a record, the error is EmptyName exactly when the
\* concatenated name is empty, InvalidNameCharacters exactly when the name
\* is not empty and has a character outside the allowed set anywhere, the
\* first position included, and InvalidNameStart exactly when the name is
\* not empty, has allowed characters only and starts with one of - : . / _ .
\* The start is the first character of the concatenation: a name whose
\* base name starts well resolves whatever its own name starts with.
C27_NameCheckPrecedence ==
    /\ (Returned /\ err \in NameErrors) =>
          LET nm == ConcatName(FailedAt)
          IN  /\ err = ErrEmptyName <=> nm = <<>>
              /\ err = ErrInvalidNameCharacters <=>
                    (nm # <<>> /\ HasForbiddenCharacter(nm))
              /\ err = ErrInvalidNameStart <=>
                    /\ nm # <<>>
                    /\ ~HasForbiddenCharacter(nm)
                    /\ nm[1] \in StartOnlyForbidden
    /\ InInputOrder =>
          \A i \in 1..Len(resolvedMessage) :
              LET nm == ConcatName(i)
              IN  /\ nm # <<>> /\ nm[1] \in Alnum
                  /\ ~HasForbiddenCharacter(nm)
                  /\ resolvedMessage[i].Name = Some(nm)

\* base name "a" with own name "-" has resolved to "a-", and the next
\* record, with base name "-" and own name "a", is rejected for its start
C27_StartOfConcatenationReached ==
    /\ round = 1 /\ Returned /\ err = ErrInvalidNameStart /\ FailedAt = 2
    /\ message[1].BaseName = Some(Str("a")) /\ message[1].Name = Some(Str("-"))
    /\ resolvedMessage[1].Name = Some(<<"a", "-">>)
    /\ message[2].BaseName = Some(Str("-")) /\ message[2].Name = Some(Str("a"))

\* the name "(" is rejected for its characters, not for its start
C27_Witness ==
    /\ round = 1 /\ Returned /\ err = ErrInvalidNameCharacters
    /\ ConcatName(FailedAt) = <<"(">>

(* -------------------------------- C28 ---------------------------------- *)

\* C28: once a record carries base_value or base_sum, no record from that
\* one on fails with MissingValue.  A MissingValue error is returned only
\* at a record up to which no record carries base_value or base_sum, and
\* every resolved record at or after a carrier of base_value (base_sum) has
\* value (sum) present, equal to the inherited base plus its own field or
\* 0, also when it carries nothing but a name or only base attributes.
C28_BaseValuePreventsMissingValue ==
    /\ (Returned /\ err = ErrMissingValue) =>
          /\ Carriers("BaseValue", FailedAt) = {}
          /\ Carriers("BaseSum", FailedAt) = {}
    /\ InInputOrder =>
          \A i \in 1..Len(resolvedMessage) :
              /\ Carriers("BaseValue", i) # {} =>
                    resolvedMessage[i].Value =
                        Some(Deref(Inherited("BaseValue", i))
                               + OrZero(message[i].Value))
              /\ Carriers("BaseSum", i) # {} =>
                    resolvedMessage[i].Sum =
                        Some(Deref(Inherited("BaseSum", i))
                               + OrZero(message[i].Sum))

\* the first record carries base value 2 and nothing else but its name, the
\* second nothing but its name: both resolve with value 2
C28_Witness ==
    /\ round = 1 /\ Returned /\ err = NoError /\ Len(message) = 2
    /\ message[1].BaseValue = Some(2) /\ message[1].Value = Nil
    /\ message[1].Sum = Nil
    /\ message[2].BaseValue = Nil /\ message[2].Value = Nil
    /\ message[2].Sum = Nil /\ message[2].BoolValue = Nil
    /\ resolvedMessage[1].Value = Some(2)
    /\ resolvedMessage[2].Value = Some(2)

(* -------------------------------- C29 ---------------------------------- *)

\* the effective version after the whole pack
FinalVersion == BasesAfter(message, timeNow, Len(message)).baseVersion

\* the resolved form of input record i: the record the loop body makes of
\* it from the bases the records before it leave, with the version stamp
\* of the pack
ResolvedForm(i) ==
    setBaseVersionIfNecessary(
        loopBody(BasesAfter(message, timeNow, i - 1), message[i], timeNow).out,
        FinalVersion)[1]

\* the one-to-one maps of the positions 1..n onto themselves
PositionMaps(n) ==
    {p \in [1..n -> 1..n] : \A i, j \in 1..n : p[i] = p[j] => i = j}

\* C29: a successful Resolve neither drops nor duplicates records.  The
\* output has as many records as the input and is a permutation of the
\* resolved forms of the input records, each input record giving exactly
\* one output record; the empty pack resolves to the empty pack without
\* error; a pack none of whose records has a resolved time comes back in
\* input order.
C29_NoRecordDroppedOrDuplicated ==
    /\ (Returned /\ message = <<>>) => err = NoError
    /\ (Returned /\ err = NoError) =>
          /\ Len(resolvedMessage) = Len(message)
          /\ \E p \in PositionMaps(Len(message)) :
                \A i \in 1..Len(message) :
                    resolvedMessage[p[i]] = ResolvedForm(i)
          /\ (\A i \in 1..Len(message) : ResolvedForm(i).Time = Nil) =>
                \A i \in 1..Len(message) :
                    resolvedMessage[i] = ResolvedForm(i)

\* three records with times 268435457, none and 268435456 have come back
\* as the second, the third and the first
C29_Witness ==
    /\ round = 1 /\ Returned /\ err = NoError /\ Len(message) = 3
    /\ message[1].Time = Some(268435457)
    /\ message[2].Time = Nil
    /\ message[3].Time = Some(268435456)
    /\ resolvedMessage[1] = ResolvedForm(2)
    /\ resolvedMessage[2] = ResolvedForm(3)
    /\ resolvedMessage[3] = ResolvedForm(1)

====
